---- MODULE Spec2Model ----
(***************************************************************************)
(* Model of the polling logic of three Ansible modules:                    *)
(*   cloud/amazon/ecs_task.py          (EcsExecManager, main)              *)
(*   web_infrastructure/ansible_tower.py (AnsibleTowerManager, main)       *)
(*   cloud/amazon/rds_snapshot.py      (RdsServiceManager, main)           *)
(* One behaviour is one run of one module; `prog` says which.  The remote  *)
(* APIs are the environment: every response is chosen nondeterministically *)
(* from a small set.  The modules are Python 2 (ecs_task.py uses           *)
(* `except X, e`), so `/` on integers is floor division, like \div here.   *)
(***************************************************************************)
EXTENDS Integers, Sequences, FiniteSets, TLC

(* ------------------------------ bounds -------------------------------- *)
\* the timeouts tried go up to 10 * MaxTimeoutTens + 5 seconds
MaxTimeoutTens == 2
\* largest number of tasks one run_task/start_task call is asked to place
MaxTasks == 2
\* largest number of containers per task
MaxContainers == 1
\* cap on the job queries of poll_job, whose own bound is out of reach with the
\* default timeout
MaxTowerPolls == 4
\* cap on the describe queries of one poll_snapshot_status call, which has no bound
MaxRdsPolls == 2
\* largest number of entries of remote_destinations
MaxRemote == 2
\* largest number of pages of a paged operation
MaxPages == 3

(* --------------------------- value domains ---------------------------- *)
\* a container without an exitCode key: c.get('exitCode') is None
NONE == -1
ExitCodes == {NONE, 0, 1}
Timeouts == {-10, 0, 5, 10} \cup {10 * k + 5 : k \in 2..MaxTimeoutTens}

VARIABLES
    prog,        \* which module runs: "ecs", "tower" or "rds"
    pc,          \* position of the run
    outcome,     \* how the run ended ("none" while it runs)
    log,         \* remote calls and sleeps, in the order they were made
    timeout,     \* module.params['timeout']
    timeout_given, \* whether the caller supplied timeout
    counter,     \* loop counter of poll_tasks / poll_job
    queries,     \* number of status queries issued by the current wait loop
    seen,        \* the kinds of answer the status-bearing calls have had so far
    \* ecs_task
    operation,   \* module.params['operation']
    check_mode,  \* module.check_mode
    count,       \* number of tasks asked for
    ncont,       \* containers per task of the task definition
    response,    \* response of run_task/start_task
    status,      \* poll_tasks: the status held by the loop
    tasks,       \* poll_tasks: `tasks` of the status examined last
    results,     \* results['task'] as returned by exit_json
    msg,         \* payload of the fail_json message
    \* ansible_tower
    job_template_id,   \* module.params['job_template_id'], 0 when absent
    job_template_name, \* module.params['job_template_name'], "" when absent
    extra_vars,        \* keys of module.params['extra_vars']
    credential,        \* module.params['credential'], 0 when absent
    inventory,         \* module.params['inventory'], 0 when absent
    launch_requirements, \* check_launch_requirements: launch_requirements, <<>> while unbound
    job_status,        \* poll_job: job_status
    job_result,        \* poll_job: job_result, <<>> while unbound
    \* rds_snapshot
    source_snapshot_id,  \* module.params['source_snapshot_id'], "" when absent
    db_instance_id,      \* module.params['db_instance_id'], "" when absent
    snapshot_type,       \* module.params['snapshot_type'], "" for the default False
    local_destinations,  \* account ids to share with in the local region
    remote_destinations, \* records of region and accounts
    service_mgr,         \* region of the client of main's current service_mgr
    snapshot,            \* main: snapshot, <<>> for None
    result,              \* main: the result dictionary
    dest,                \* index of the destination the current for loop is at
    poll_ctx,            \* which call of poll_snapshot_status is running
    poll_snapshot,       \* poll_snapshot_status: snapshot
    poll_changed,        \* poll_snapshot_status: changed
    call,                \* the RDS calls and sleeps of the last step, with their region
    \* cloudformation_facts
    params,              \* module.params: the five boolean flags
    pages,               \* the pages the paged function serves, in order
    func_args,           \* paginated_response: the args of every call of func, in order
    page_result,         \* paginated_response: what the outermost call returned
    cf_result            \* main: the result dictionary

commonVars == <<prog, pc, outcome, log, timeout, timeout_given, counter, queries, seen>>
ecsVars == <<operation, check_mode, count, ncont, response, status, tasks, results, msg>>
towerParams == <<job_template_id, job_template_name, extra_vars, credential, inventory>>
towerVars == <<towerParams, launch_requirements, job_status, job_result>>
rdsParams == <<source_snapshot_id, db_instance_id, snapshot_type, local_destinations,
               remote_destinations>>
rdsVars == <<rdsParams, service_mgr, snapshot, result, dest, poll_ctx, poll_snapshot,
             poll_changed, call>>
cfVars == <<params, pages, func_args, page_result, cf_result>>
vars == <<commonVars, ecsVars, towerVars, rdsVars, cfVars>>

(* ----------------------------- helpers -------------------------------- *)
RECURSIVE Flatten(_)
Flatten(ss) == IF ss = <<>> THEN <<>> ELSE Head(ss) \o Flatten(Tail(ss))

NoStatus == [failures |-> <<>>, tasks |-> <<>>]

\* the parameters of cloudformation_facts when another module runs
CfIdle ==
    /\ params = [all_facts |-> FALSE, stack_policy |-> FALSE, stack_events |-> FALSE,
                 stack_resources |-> FALSE, stack_template |-> FALSE]
    /\ pages = <<>>

\* the parameters of rds_snapshot when another module runs
RdsIdle ==
    /\ source_snapshot_id = "" /\ db_instance_id = "" /\ snapshot_type = ""
    /\ local_destinations = <<>> /\ remote_destinations = <<>>
    /\ CfIdle

(* ============================ ecs_task ================================ *)
\* one task of a run_task/start_task/describe_tasks response
Task(arn, lastStatus, codes) ==
    [taskArn |-> arn, lastStatus |-> lastStatus,
     containers |-> [i \in 1..Len(codes) |-> [taskArn |-> arn, exitCode |-> codes[i]]]]

\* what the service may say about one requested task
TaskShapes(k, states) ==
    {[lastStatus |-> "MISSING", codes |-> <<>>]}
    \cup {[lastStatus |-> s, codes |-> [i \in 1..k |-> NONE]] : s \in states \ {"STOPPED"}}
    \cup (IF "STOPPED" \in states
          THEN {[lastStatus |-> "STOPPED", codes |-> cs] : cs \in [1..k -> ExitCodes]}
          ELSE {})

\* a response about the tasks `arns`: the tasks found and the failures
EcsResponse(arns, f) ==
    LET idx == [i \in 1..Len(arns) |-> i]
        ok == SelectSeq(idx, LAMBDA i : f[i].lastStatus # "MISSING")
        ko == SelectSeq(idx, LAMBDA i : f[i].lastStatus = "MISSING")
    IN [failures |-> [j \in 1..Len(ko) |-> [arn |-> arns[ko[j]], reason |-> "MISSING"]],
        tasks |-> [j \in 1..Len(ok) |-> Task(arns[ok[j]], f[ok[j]].lastStatus, f[ok[j]].codes)]]

EcsResponses(arns, k, states) ==
    {EcsResponse(arns, f) : f \in [1..Len(arns) -> TaskShapes(k, states)]}

\* the kind of a response, as seen from outside the module
EcsKind(r) ==
    IF r.failures # <<>> THEN "failures"
    ELSE IF \A i \in 1..Len(r.tasks) : r.tasks[i].lastStatus = "STOPPED" THEN "stopped"
    ELSE "active"

\* run_task/start_task answer with freshly placed (PENDING) tasks and failures
SubmitResponses(n, k) == EcsResponses([i \in 1..n |-> i], k, {"PENDING"})
\* what describe_tasks may say about task t: a stopped task stays as it stopped
\* or is no longer found, any other task may be running or have stopped
Later(t, k) ==
    IF t.lastStatus = "STOPPED"
    THEN {[lastStatus |-> "MISSING", codes |-> <<>>],
          [lastStatus |-> "STOPPED",
           codes |-> [i \in 1..Len(t.containers) |-> t.containers[i].exitCode]]}
    ELSE TaskShapes(k, {"RUNNING", "STOPPED"})

RECURSIVE LaterAll(_, _)
LaterAll(ts, k) ==
    IF ts = <<>> THEN {<<>>}
    ELSE {<<h>> \o r : h \in Later(Head(ts), k), r \in LaterAll(Tail(ts), k)}

\* describe_tasks answers for the tasks asked about
DescribeResponses(ts, k) ==
    {EcsResponse([i \in 1..Len(ts) |-> ts[i].taskArn], f) : f \in LaterAll(ts, k)}

poll_interval == 10
\* poll_tasks: poll_count = timeout / poll_interval + 1
EcsPollCountExtra(t) == t \div poll_interval + 2
EcsPollCount(t) == t \div poll_interval + 1

TasksCompleteAny(ts) == \E i \in 1..Len(ts) : ts[i].lastStatus = "STOPPED"
TasksComplete(ts) == \A i \in 1..Len(ts) : ts[i].lastStatus = "STOPPED"

\* non_zero with `exitCode > 0` in place of `exitCode != 0`
NonZeroPositive(ts) ==
    Flatten([i \in 1..Len(ts) |->
        LET bad == SelectSeq(ts[i].containers, LAMBDA c : c.exitCode > 0)
        IN [j \in 1..Len(bad) |-> bad[j].taskArn]])

NonZero(ts) ==
    Flatten([i \in 1..Len(ts) |->
        LET bad == SelectSeq(ts[i].containers, LAMBDA c : c.exitCode # 0)
        IN [j \in 1..Len(bad) |-> bad[j].taskArn]])

\* run_task / start_task: `if timeout > 0`
ShouldPollAtZero(t) == t >= 0
ShouldPoll(t) == t > 0

\* the submitting call issued twice
SubmitCallTwice(op) == <<op, op>>
\* run_task / start_task: the one self.ecs.run_task / self.ecs.start_task call
SubmitCall(op) == <<op>>

\* main up to and including the run_task / start_task call
EcsSubmit(op) ==
    /\ prog = "ecs" /\ pc = "main" /\ operation = op
    /\ IF check_mode
       THEN /\ pc' = "done" /\ outcome' = "success"
            /\ UNCHANGED <<log, response, status, results, seen>>
       ELSE /\ log' = log \o SubmitCall(op)
            /\ \/ \* the SDK call raises: nothing catches it
                  /\ pc' = "done" /\ outcome' = "exception"
                  /\ seen' = seen \cup {"error"}
                  /\ UNCHANGED <<response, status, results>>
               \/ \E r \in SubmitResponses(count, ncont) :
                    /\ response' = r
                    /\ seen' = seen \cup {EcsKind(r)}
                    /\ IF ShouldPoll(timeout)
                       THEN /\ pc' = "poll_tasks" /\ status' = r
                            /\ UNCHANGED <<outcome, results>>
                       ELSE /\ pc' = "done" /\ outcome' = "success"
                            /\ results' = r.tasks
                            /\ UNCHANGED status
    /\ UNCHANGED <<prog, cfVars, timeout, timeout_given, counter, queries, operation, check_mode,
                   count, ncont, tasks, msg>>
    /\ UNCHANGED <<towerVars, rdsVars>>

run_task == EcsSubmit("run_task")
start_task == EcsSubmit("start_task")

stop_task ==
    /\ prog = "ecs" /\ pc = "main" /\ operation = "stop_task"
    /\ IF check_mode
       THEN /\ pc' = "done" /\ outcome' = "success"
            /\ UNCHANGED <<log, results>>
       ELSE /\ log' = Append(log, "stop_task")
            /\ \/ /\ pc' = "done" /\ outcome' = "exception"
                  /\ UNCHANGED results
               \/ \E c \in [1..ncont -> ExitCodes] :
                    /\ pc' = "done" /\ outcome' = "success"
                    /\ results' = <<Task(1, "STOPPED", c)>>
    /\ UNCHANGED <<prog, cfVars, timeout, timeout_given, counter, queries, seen, operation, check_mode,
                   count, ncont, response, status, tasks, msg>>
    /\ UNCHANGED <<towerVars, rdsVars>>

\* the sleep placed before the query instead of after it
SleepThenQuery == <<"sleep", "describe_tasks">>
\* poll_tasks: the describe_tasks call, then time.sleep(poll_interval)
QueryStep == <<"describe_tasks", "sleep">>

\* one iteration of the while loop of poll_tasks
poll_tasks_iter ==
    /\ prog = "ecs" /\ pc = "poll_tasks" /\ counter < EcsPollCount(timeout)
    /\ IF status.failures # <<>>
       THEN /\ pc' = "done" /\ outcome' = "tasks_failed"
            /\ msg' = status.failures
            /\ UNCHANGED <<log, counter, queries, seen, status, tasks, results>>
       ELSE /\ tasks' = status.tasks
            /\ IF TasksComplete(status.tasks)
               THEN /\ UNCHANGED <<log, counter, queries, seen, status>>
                    /\ pc' = "done"
                    /\ IF NonZero(status.tasks) # <<>>
                       THEN /\ outcome' = "non_zero" /\ msg' = NonZero(status.tasks)
                            /\ UNCHANGED results
                       ELSE /\ outcome' = "success" /\ results' = status.tasks
                            /\ UNCHANGED msg
               ELSE /\ queries' = queries + 1
                    /\ UNCHANGED <<results, msg>>
                    /\ \/ \* describe_tasks raises: nothing catches it
                          /\ log' = Append(log, "describe_tasks")
                          /\ pc' = "done" /\ outcome' = "exception"
                          /\ seen' = seen \cup {"error"}
                          /\ UNCHANGED <<status, counter>>
                       \/ \E r \in DescribeResponses(status.tasks, ncont) :
                            /\ status' = r
                            /\ seen' = seen \cup {EcsKind(r)}
                            /\ log' = log \o QueryStep
                            /\ counter' = counter + 1
                            /\ UNCHANGED <<pc, outcome>>
    /\ UNCHANGED <<prog, cfVars, timeout, timeout_given, operation, check_mode, count, ncont, response>>
    /\ UNCHANGED <<towerVars, rdsVars>>

\* the loop condition fails: fail_json after the loop
poll_tasks_timeout ==
    /\ prog = "ecs" /\ pc = "poll_tasks" /\ ~(counter < EcsPollCount(timeout))
    /\ pc' = "done" /\ outcome' = "timeout"
    /\ msg' = tasks
    /\ UNCHANGED <<prog, cfVars, log, timeout, timeout_given, counter, queries, seen, operation,
                   check_mode, count, ncont, response, status, tasks, results>>
    /\ UNCHANGED <<towerVars, rdsVars>>


(* ========================== ansible_tower ============================= *)
\* sys.maxsize, the default of the timeout parameter (its value on a 32-bit build)
SysMaxsize == 2147483647

POLL_INTERVAL == 10
\* poll_job: poll_count = self.timeout / POLL_INTERVAL + 1
TowerPollCountFloor(t) == t \div POLL_INTERVAL
TowerPollCount(t) == t \div POLL_INTERVAL + 1

\* the list of line 210 and line 331 without 'running'
ActiveStatusesNoRunning == {"pending", "waiting"}
ActiveStatuses == {"pending", "waiting", "running"}
JobStatuses == {"pending", "waiting", "running", "successful", "failed", "canceled"}
\* the job dictionaries a GET of the job URL may return
JobResults == [status : JobStatuses, failed : BOOLEAN]

\* main: "You must specify either job_template_id or job_template_name"
validate_parameters ==
    /\ prog = "tower" /\ pc = "main"
    /\ IF job_template_id = 0 /\ job_template_name = ""
       THEN pc' = "done" /\ outcome' = "no_template_param"
       ELSE pc' = "authenticate" /\ UNCHANGED outcome
    /\ UNCHANGED <<prog, cfVars, log, timeout, timeout_given, counter, queries, seen>>
    /\ UNCHANGED <<ecsVars, towerVars, rdsVars>>

\* AnsibleTowerManager.__init__ -> authenticate, and main's except clauses
authenticate ==
    /\ prog = "tower" /\ pc = "authenticate"
    /\ log' = Append(log, "authenticate")
    /\ \/ pc' = "get_job_template_id" /\ UNCHANGED outcome
       \/ pc' = "done" /\ outcome' = "auth_failed"
       \/ pc' = "done" /\ outcome' = "connect_failed"
    /\ UNCHANGED <<prog, cfVars, timeout, timeout_given, counter, queries, seen>>
    /\ UNCHANGED <<ecsVars, towerVars, rdsVars>>

\* a test that sends the name lookup whatever was supplied
IdSuppliedNever == FALSE
\* main: the left operand of `job_template_id or manager.get_job_template_id(...)`
IdSupplied == job_template_id # 0

\* main: job_template_id = job_template_id or manager.get_job_template_id(name)
get_job_template_id ==
    /\ prog = "tower" /\ pc = "get_job_template_id"
    /\ IF IdSupplied
       THEN /\ pc' = "check_launch_requirements"
            /\ UNCHANGED <<log, outcome, job_template_id>>
       ELSE /\ log' = Append(log, "get_job_template_id")
            /\ \/ \* HTTP error
                  /\ pc' = "done" /\ outcome' = "template_query_error"
                  /\ UNCHANGED job_template_id
               \/ \* first result's id, None when there is no result
                  \E id \in {0, 7} :
                    /\ job_template_id' = id
                    /\ IF id = 0
                       THEN pc' = "done" /\ outcome' = "invalid_template"
                       ELSE pc' = "check_launch_requirements" /\ UNCHANGED outcome
    /\ UNCHANGED <<prog, cfVars, timeout, timeout_given, counter, queries, seen>>
    /\ UNCHANGED <<ecsVars, job_template_name, extra_vars, credential, inventory,
                   launch_requirements, job_status, job_result, rdsVars>>

\* check_required_vars, check_credential_required, check_inventory_required
RequirementsMet(req) ==
    /\ req.variables_needed_to_start \subseteq extra_vars
    /\ ~(req.credential_needed_to_start /\ credential = 0)
    /\ ~(req.credential_needed_to_start /\ inventory = 0)

check_launch_requirements ==
    /\ prog = "tower" /\ pc = "check_launch_requirements"
    /\ log' = Append(log, "get_launch_requirements")
    /\ \/ \* get_launch_requirements raises an HTTPError
          /\ pc' = "done" /\ outcome' = "launch_data_error"
          /\ UNCHANGED launch_requirements
       \/ \E req \in [variables_needed_to_start : SUBSET {"v"},
                      credential_needed_to_start : BOOLEAN] :
            /\ launch_requirements' = <<req>>
            /\ IF RequirementsMet(req)
               THEN pc' = "launch_job" /\ UNCHANGED outcome
               ELSE pc' = "done" /\ outcome' = "requirements_error"
    /\ UNCHANGED <<prog, cfVars, timeout, timeout_given, counter, queries, seen>>
    /\ UNCHANGED <<ecsVars, towerParams, job_status, job_result, rdsVars>>

\* the HTTPError reported as if the wait had timed out
LaunchExceptAsTimeout == "timeout"
\* main: `except requests.exceptions.HTTPError` around launch_job, which wraps
\* poll_job too: 'Error launching job'
LaunchExcept == "launch_error"

\* launch_job up to the call of poll_job, and the first lines of poll_job
launch_job ==
    /\ prog = "tower" /\ pc = "launch_job"
    /\ log' = Append(log, "launch_job")
    /\ \/ pc' = "done" /\ outcome' = LaunchExcept
          /\ UNCHANGED <<counter, job_status>>
       \/ /\ pc' = "poll_job" /\ UNCHANGED outcome
          /\ counter' = 0
          /\ job_status' = "pending"
    /\ UNCHANGED <<prog, cfVars, timeout, timeout_given, queries, seen>>
    /\ UNCHANGED <<ecsVars, towerParams, launch_requirements, job_result, rdsVars>>

\* the loop condition without its test of job_status
PollJobContinuesByCount == counter < TowerPollCount(timeout)

PollJobContinues ==
    counter < TowerPollCount(timeout) /\ job_status \in ActiveStatuses

\* one iteration of the while loop of poll_job
poll_job_iter ==
    /\ prog = "tower" /\ pc = "poll_job" /\ PollJobContinues
    /\ queries < MaxTowerPolls
    /\ log' = log \o <<"sleep", "get_job">>
    /\ queries' = queries + 1
    /\ \/ \* raise_for_status raises; main reports 'Error launching job'
          /\ pc' = "done" /\ outcome' = LaunchExcept
          /\ seen' = seen \cup {"error"}
          /\ UNCHANGED <<counter, job_status, job_result>>
       \/ \E r \in JobResults :
            /\ job_result' = <<r>>
            /\ seen' = seen \cup {IF r.status \in {"pending", "waiting", "running"}
                                   THEN "active" ELSE "terminal"}
            /\ job_status' = r.status
            /\ counter' = counter + 1
            /\ UNCHANGED <<pc, outcome>>
    /\ UNCHANGED <<prog, cfVars, timeout, timeout_given>>
    /\ UNCHANGED <<ecsVars, towerParams, launch_requirements, rdsVars>>

\* the two tests of main in the other order
ClassifyFailedFirst(r) ==
    IF r.failed THEN "job_failed"
    ELSE IF r.status \in ActiveStatuses THEN "timeout"
    ELSE "success"

\* main: what becomes of the job_result launch_job returned
Classify(r) ==
    IF r.status \in ActiveStatuses THEN "timeout"
    ELSE IF r.failed THEN "job_failed"
    ELSE "success"

\* poll_job returns job_result; main classifies it
poll_job_return ==
    /\ prog = "tower" /\ pc = "poll_job" /\ ~PollJobContinues
    /\ pc' = "done"
    /\ outcome' = IF job_result = <<>> THEN "exception"  \* UnboundLocalError
                  ELSE Classify(job_result[1])
    /\ UNCHANGED <<prog, cfVars, log, timeout, timeout_given, counter, queries, seen>>
    /\ UNCHANGED <<ecsVars, towerVars, rdsVars>>

TowerInit ==
    /\ prog = "tower"
    /\ \/ timeout_given = TRUE /\ timeout \in Timeouts
       \/ timeout_given = FALSE /\ timeout = SysMaxsize
    /\ job_template_id \in {0, 7}
    /\ job_template_name \in {"", "deploy"}
    /\ extra_vars \in SUBSET {"v"}
    /\ credential \in {0, 1}
    /\ inventory \in {0, 1}
    /\ operation = "" /\ check_mode = FALSE /\ count = 0 /\ ncont = 0
    /\ RdsIdle

(* =========================== rds_snapshot ============================= *)
\* default of the timeout parameter
RdsDefaultTimeout == 900
\* the region of the module's own connection, and the other regions
LocalRegion == "ap-southeast-2"
Regions == {LocalRegion, "us-west-2", "us-east-1"}
Statuses == {"creating", "available", "failed"}

Snap(id, type, st, region) ==
    [DBSnapshotIdentifier |-> id, SnapshotType |-> type, Status |-> st, Region |-> region]
NoSnap == Snap("", "", "", "")
Call(op, region) == [op |-> op, region |-> region]

RdsFail(o) == pc' = "done" /\ outcome' = o

\* the first lines of poll_snapshot_status, called with snapshot s
EnterPoll(s, ctx) ==
    /\ pc' = "poll_snapshot_status"
    /\ poll_ctx' = ctx /\ poll_snapshot' = s /\ poll_changed' = FALSE
    /\ queries' = 0

\* main: the lookup of the source snapshot
select_source ==
    /\ prog = "rds" /\ pc = "main"
    /\ IF source_snapshot_id # ""
       THEN /\ call' = <<Call("describe_db_snapshots", service_mgr)>>
            /\ \/ RdsFail("source_not_found") /\ UNCHANGED <<snapshot, result>>
               \/ RdsFail("describe_error") /\ UNCHANGED <<snapshot, result>>
               \/ \E type \in {"manual", "automated", "shared"}, st \in Statuses :
                    /\ snapshot' = <<Snap(source_snapshot_id, type, st, LocalRegion)>>
                    /\ result' = [result EXCEPT !.keys = @ \cup {"source_snapshot"}]
                    /\ pc' = IF type \in {"automated", "shared", "public"}
                             THEN "copy_or_existing" ELSE "share_local"
                    /\ UNCHANGED outcome
       ELSE IF db_instance_id # ""
       THEN IF snapshot_type \in {"shared", "public", "automated"}
            THEN /\ call' = <<Call("describe_db_snapshots", service_mgr)>>
                 /\ \/ \* the call raises outside any try
                       RdsFail("exception") /\ UNCHANGED <<snapshot, result>>
                    \/ /\ RdsFail("latest_not_found")
                       /\ result' = [result EXCEPT !.keys = @ \cup {"source_snapshot"}]
                       /\ UNCHANGED snapshot
                    \/ \E st \in Statuses :
                         /\ snapshot' = <<Snap("latest", snapshot_type, st, LocalRegion)>>
                         /\ result' = [result EXCEPT !.keys = @ \cup {"source_snapshot"}]
                         /\ pc' = "copy_or_existing"
                         /\ UNCHANGED outcome
            ELSE /\ pc' = "create_or_existing"
                 /\ call' = <<>>
                 /\ UNCHANGED <<outcome, snapshot, result>>
       ELSE /\ RdsFail("no_source_param")
            /\ call' = <<>>
            /\ UNCHANGED <<snapshot, result>>
    /\ UNCHANGED <<prog, cfVars, log, timeout, timeout_given, counter, queries, seen>>
    /\ UNCHANGED <<ecsVars, towerVars, rdsParams, service_mgr, dest, poll_ctx, poll_snapshot,
                   poll_changed>>

\* copy_or_existing, then the call of poll_snapshot_status
copy_or_existing ==
    /\ prog = "rds" /\ pc = "copy_or_existing"
    /\ \/ /\ call' = <<Call("describe_db_snapshots", service_mgr)>>
          /\ \/ /\ RdsFail("describe_error")
                /\ UNCHANGED <<snapshot, poll_ctx, poll_snapshot, poll_changed, queries>>
             \/ \E st \in Statuses :
                  /\ snapshot' = <<Snap("target", "manual", st, LocalRegion)>>
                  /\ EnterPoll(snapshot'[1], "copy")
                  /\ UNCHANGED outcome
       \/ \* not found: copy_snapshot
          /\ call' = <<Call("describe_db_snapshots", service_mgr),
                                 Call("copy_db_snapshot", service_mgr)>>
          /\ \/ /\ RdsFail("copy_error")
                /\ UNCHANGED <<snapshot, poll_ctx, poll_snapshot, poll_changed, queries>>
             \/ /\ snapshot' = <<Snap("target", "manual", "creating", LocalRegion)>>
                /\ EnterPoll(snapshot'[1], "copy")
                /\ UNCHANGED outcome
    /\ UNCHANGED <<prog, cfVars, log, timeout, timeout_given, counter, seen>>
    /\ UNCHANGED <<ecsVars, towerVars, rdsParams, service_mgr, result, dest>>

\* main: the snapshot named snapshot_name is looked up, and created when missing
create_or_existing ==
    /\ prog = "rds" /\ pc = "create_or_existing"
    /\ \/ /\ call' = <<Call("describe_db_snapshots", service_mgr)>>
          /\ \/ /\ RdsFail("describe_error")
                /\ UNCHANGED <<snapshot, poll_ctx, poll_snapshot, poll_changed, queries>>
             \/ \E st \in Statuses :
                  /\ snapshot' = <<Snap("target", "manual", st, LocalRegion)>>
                  /\ pc' = "share_local"
                  /\ UNCHANGED <<outcome, poll_ctx, poll_snapshot, poll_changed, queries>>
       \/ /\ call' = <<Call("describe_db_snapshots", service_mgr),
                                 Call("create_db_snapshot", service_mgr)>>
          /\ \/ /\ RdsFail("create_error")
                /\ UNCHANGED <<snapshot, poll_ctx, poll_snapshot, poll_changed, queries>>
             \/ /\ snapshot' = <<Snap("target", "manual", "creating", LocalRegion)>>
                /\ EnterPoll(snapshot'[1], "create")
                /\ UNCHANGED outcome
    /\ UNCHANGED <<prog, cfVars, log, timeout, timeout_given, counter, seen>>
    /\ UNCHANGED <<ecsVars, towerVars, rdsParams, service_mgr, result, dest>>

\* a test that never takes the snapshot for missing
GoneNever(s) == FALSE
\* poll_snapshot_status: `if not snapshot`
Gone(s) == s = NoSnap

PollSnapshotContinues(s) == s.Status # "available"

\* one iteration of the while loop of poll_snapshot_status
poll_snapshot_status_iter ==
    /\ prog = "rds" /\ pc = "poll_snapshot_status"
    /\ PollSnapshotContinues(poll_snapshot)
    /\ queries < MaxRdsPolls
    /\ call' = <<Call("sleep", service_mgr),
                           Call("describe_db_snapshots", service_mgr)>>
    /\ queries' = queries + 1
    /\ \/ \* a ClientError other than DBSnapshotNotFound: fail_json in describe_snapshot
          RdsFail("describe_error") /\ UNCHANGED <<poll_snapshot, poll_changed>>
       \/ \* DBSnapshotNotFound makes describe_snapshot return None
          \E s \in {NoSnap} \cup {[poll_snapshot EXCEPT !.Status = st, !.Region = service_mgr] :
                                   st \in Statuses} :
            /\ poll_snapshot' = s
            /\ IF Gone(s)
               THEN RdsFail("snapshot_not_found") /\ UNCHANGED poll_changed
               ELSE poll_changed' = TRUE /\ UNCHANGED <<pc, outcome>>
    /\ UNCHANGED <<prog, cfVars, log, timeout, timeout_given, counter, seen>>
    /\ UNCHANGED <<ecsVars, towerVars, rdsParams, service_mgr, snapshot, result, dest, poll_ctx>>

\* poll_snapshot_status returns (snapshot, changed); main goes on up to its next remote call
poll_snapshot_status_return ==
    /\ prog = "rds" /\ pc = "poll_snapshot_status"
    /\ ~PollSnapshotContinues(poll_snapshot)
    /\ IF poll_ctx \in {"copy", "create"}
       THEN /\ snapshot' = <<poll_snapshot>>
            /\ result' = [result EXCEPT
                             !.changed = poll_changed,
                             !.keys = IF poll_ctx = "create"
                                      THEN @ \cup {"source_snapshot"} ELSE @]
            /\ pc' = "share_local"
            /\ UNCHANGED <<outcome, dest>>
       ELSE \* remote_snapshot is bound to the pair (snapshot, changed)
            /\ UNCHANGED <<snapshot, result>>
            /\ IF result.remote_destinations[dest].accounts # <<>> /\ ~result.changed
               THEN \* share_or_existing indexes the pair with a string: TypeError
                    RdsFail("exception") /\ UNCHANGED dest
               ELSE pc' = "poll_remote" /\ dest' = dest + 1 /\ UNCHANGED outcome
    /\ UNCHANGED <<prog, cfVars, log, timeout, timeout_given, counter, queries, seen>>
    /\ UNCHANGED <<ecsVars, towerVars, rdsParams, service_mgr, poll_ctx, poll_snapshot,
                   poll_changed>>
    /\ call' = <<>>

\* share_or_existing(snapshot, accounts) through the client of service_mgr:
\* `shared` is what get_restore_attributes returns, `ok` whether share_snapshot succeeds
ShareOrExisting(accounts, shared, ok) ==
    IF {accounts[i] : i \in 1..Len(accounts)} \subseteq shared
    THEN /\ call' = <<Call("describe_db_snapshot_attributes", service_mgr)>>
         /\ result' = [result EXCEPT !.changed = FALSE,
                                     !.keys = @ \cup {"local_destinations", "remote_destinations"}]
         /\ pc' = "copy_remote" /\ UNCHANGED outcome
    ELSE /\ call' = <<Call("describe_db_snapshot_attributes", service_mgr),
                                Call("modify_db_snapshot_attribute", service_mgr)>>
         /\ IF ok
            THEN /\ result' = [result EXCEPT !.changed = TRUE,
                                  !.keys = @ \cup {"local_destinations", "remote_destinations"}]
                 /\ pc' = "copy_remote" /\ UNCHANGED outcome
            ELSE RdsFail("exception") /\ UNCHANGED result

\* main: "Share with local destinations"
share_local ==
    /\ prog = "rds" /\ pc = "share_local"
    /\ dest' = 1
    /\ IF local_destinations # <<>>
       THEN \/ \* describe_db_snapshot_attributes raises
               /\ call' = <<Call("describe_db_snapshot_attributes", service_mgr)>>
               /\ RdsFail("exception") /\ UNCHANGED result
            \/ \E shared \in SUBSET {"111", "222"}, ok \in BOOLEAN :
                 ShareOrExisting(local_destinations, shared, ok)
       ELSE /\ result' = [result EXCEPT
                             !.keys = @ \cup {"local_destinations", "remote_destinations"}]
            /\ pc' = "copy_remote"
            /\ call' = <<>>
            /\ UNCHANGED outcome
    /\ UNCHANGED <<prog, cfVars, log, timeout, timeout_given, counter, queries, seen>>
    /\ UNCHANGED <<ecsVars, towerVars, rdsParams, service_mgr, snapshot, poll_ctx,
                   poll_snapshot, poll_changed>>

\* a copy loop that is left after its first destination
CopyLoopDoneEarly == dest > 1 \/ dest > Len(remote_destinations)
\* main: `for remote_destination in remote_destinations` has no destination left
CopyLoopDone == dest > Len(remote_destinations)

\* one iteration of the loop over remote_destinations
copy_remote ==
    /\ prog = "rds" /\ pc = "copy_remote" /\ ~CopyLoopDone
    /\ LET region == remote_destinations[dest].region
           accounts == remote_destinations[dest].accounts
           id == snapshot[1].DBSnapshotIdentifier
           Found(s) == [region |-> region, snapshot |-> s, accounts |-> accounts]
       IN IF region # LocalRegion
          THEN /\ service_mgr' = region
               /\ \/ /\ call' = <<Call("describe_db_snapshots", region)>>
                     /\ \/ RdsFail("describe_error") /\ UNCHANGED <<result, dest>>
                        \/ \E st \in Statuses :
                             /\ result' = [result EXCEPT !.remote_destinations =
                                              Append(@, Found(Snap(id, "manual", st, region)))]
                             /\ dest' = dest + 1
                             /\ UNCHANGED <<pc, outcome>>
                  \/ /\ call' = <<Call("describe_db_snapshots", region),
                                            Call("copy_db_snapshot", region)>>
                     /\ \/ RdsFail("copy_error") /\ UNCHANGED <<result, dest>>
                        \/ /\ result' = [result EXCEPT
                                            !.changed = TRUE,
                                            !.remote_destinations =
                                              Append(@, Found(Snap(id, "manual", "creating", region)))]
                           /\ dest' = dest + 1
                           /\ UNCHANGED <<pc, outcome>>
          ELSE /\ dest' = dest + 1
               /\ call' = <<>>
               /\ UNCHANGED <<pc, outcome, service_mgr, result>>
    /\ UNCHANGED <<prog, cfVars, log, timeout, timeout_given, counter, queries, seen>>
    /\ UNCHANGED <<ecsVars, towerVars, rdsParams, snapshot, poll_ctx, poll_snapshot,
                   poll_changed>>

\* the loop over remote_destinations ends; the loop over result['remote_destinations'] starts
copy_remote_done ==
    /\ prog = "rds" /\ pc = "copy_remote" /\ CopyLoopDone
    /\ pc' = "poll_remote" /\ dest' = 1
    /\ UNCHANGED <<prog, cfVars, outcome, log, timeout, timeout_given, counter, queries, seen>>
    /\ UNCHANGED <<ecsVars, towerVars, rdsParams, service_mgr, snapshot, result, poll_ctx,
                   poll_snapshot, poll_changed>>
    /\ call' = <<>>

\* one iteration of the "Poll and share operations" loop: the call of poll_snapshot_status
poll_remote ==
    /\ prog = "rds" /\ pc = "poll_remote" /\ dest <= Len(result.remote_destinations)
    /\ EnterPoll(result.remote_destinations[dest].snapshot, "remote")
    /\ UNCHANGED <<prog, cfVars, outcome, log, timeout, timeout_given, counter, seen>>
    /\ call' = <<>>
    /\ UNCHANGED <<ecsVars, towerVars, rdsParams, service_mgr, snapshot, result, dest>>

\* main: the last three lines
rds_exit ==
    /\ prog = "rds" /\ pc = "poll_remote" /\ dest > Len(result.remote_destinations)
    /\ result' = [result EXCEPT !.keys = @ \cup {"snapshot", "snapshot_arn"}]
    /\ pc' = "done" /\ outcome' = "success"
    /\ UNCHANGED <<prog, cfVars, log, timeout, timeout_given, counter, queries, seen>>
    /\ UNCHANGED <<ecsVars, towerVars, rdsParams, service_mgr, snapshot, dest, poll_ctx,
                   poll_snapshot, poll_changed>>
    /\ call' = <<>>

RECURSIVE SeqsUpTo(_, _)
SeqsUpTo(S, n) ==
    IF n = 0 THEN {<<>>}
    ELSE LET shorter == SeqsUpTo(S, n - 1)
         IN shorter \cup {Append(q, x) : q \in shorter, x \in S}

RdsInit ==
    /\ prog = "rds"
    /\ \/ timeout_given = TRUE /\ timeout = 0
       \/ timeout_given = FALSE /\ timeout = RdsDefaultTimeout
    /\ \/ \* db_instance_id is ignored when source_snapshot_id is given
          /\ source_snapshot_id = "source" /\ db_instance_id = "" /\ snapshot_type = ""
       \/ /\ source_snapshot_id = "" /\ db_instance_id = "db"
          /\ snapshot_type \in {"", "automated"}
       \/ /\ source_snapshot_id = "" /\ db_instance_id = "" /\ snapshot_type = ""
    /\ local_destinations \in {<<>>, <<"111">>}
    /\ remote_destinations \in
         SeqsUpTo([region : Regions, accounts : {<<>>, <<"222">>}], MaxRemote)
    /\ operation = "" /\ check_mode = FALSE /\ count = 0 /\ ncont = 0
    /\ job_template_id = 0 /\ job_template_name = "" /\ extra_vars = {}
    /\ credential = 0 /\ inventory = 0
    /\ CfIdle

(* ======================== cloudformation_facts ======================== *)
\* a response without a NextToken: response.get('NextToken') is None
NoToken == 0

\* one page of a paged operation: the list under result_key and the NextToken.
\* The token of a page is its position in the chain.
Page(result_key, items, token) ==
    [k \in {result_key, "NextToken"} |-> IF k = "NextToken" THEN token ELSE items]

\* the finite chains of at most n pages whose lists are drawn from S
RECURSIVE ItemLists(_, _)
ItemLists(S, n) ==
    IF n = 0 THEN {<<>>}
    ELSE {<<x>> \o r : x \in S, r \in ItemLists(S, n - 1)}

Chain(result_key, lists) ==
    [i \in 1..Len(lists) |->
        Page(result_key, lists[i], IF i < Len(lists) THEN i + 1 ELSE NoToken)]

Chains(result_key, S, n) ==
    {Chain(result_key, l) : l \in UNION {ItemLists(S, m) : m \in 1..n}}

\* func(**args): the first page without NextToken, else the page the token names
Func(ps, args) == ps[IF args = <<>> THEN 1 ELSE args[1]]

\* paginated_response that stops after the second page
RECURSIVE PaginatedTwoPages(_, _, _)
PaginatedTwoPages(ps, result_key, next_token) ==
    LET args == IF next_token # NoToken THEN <<next_token>> ELSE <<>>
        page == Func(ps, args)   \* response = func(**args)
        token == IF next_token # NoToken THEN NoToken ELSE page["NextToken"]
    IN IF token = NoToken
       THEN [result |-> page[result_key], calls |-> <<args>>]
       ELSE LET rest == PaginatedTwoPages(ps, result_key, token)
            IN [result |-> page[result_key] \o rest.result,
                calls |-> <<args>> \o rest.calls]

\* paginated_response(func, result_key, next_token): what it returns, and the
\* args of the calls of func it makes, in order
RECURSIVE PaginatedResponse(_, _, _)
PaginatedResponse(ps, result_key, next_token) ==
    LET args == IF next_token # NoToken THEN <<next_token>> ELSE <<>>
        page == Func(ps, args)   \* response = func(**args)
        token == page["NextToken"]
    IN IF token = NoToken
       THEN [result |-> page[result_key], calls |-> <<args>>]
       ELSE LET rest == PaginatedResponse(ps, result_key, token)
            IN [result |-> page[result_key] \o rest.result,
                calls |-> <<args>> \o rest.calls]

\* the lists one page may carry
PageLists == {<<>>, <<"a">>, <<"b">>, <<"a", "b">>}

\* one call of paginated_response on the chain `pages`
paginated_response ==
    /\ prog = "paginated_response" /\ pc = "main"
    /\ LET r == PaginatedResponse(pages, "Items", NoToken)
       IN page_result' = r.result /\ func_args' = r.calls
    /\ pc' = "done" /\ outcome' = "success"
    /\ UNCHANGED <<prog, log, timeout, timeout_given, counter, queries, seen>>
    /\ UNCHANGED <<ecsVars, towerVars, rdsVars, params, pages, cf_result>>

PaginatedInit ==
    /\ prog = "paginated_response"
    /\ pages \in Chains("Items", PageLists, MaxPages)
    /\ params = [all_facts |-> FALSE, stack_policy |-> FALSE, stack_events |-> FALSE,
                 stack_resources |-> FALSE, stack_template |-> FALSE]
    /\ timeout = 0 /\ timeout_given = FALSE
    /\ operation = "" /\ check_mode = FALSE /\ count = 0 /\ ncont = 0
    /\ job_template_id = 0 /\ job_template_name = "" /\ extra_vars = {}
    /\ credential = 0 /\ inventory = 0
    /\ source_snapshot_id = "" /\ db_instance_id = "" /\ snapshot_type = ""
    /\ local_destinations = <<>> /\ remote_destinations = <<>>

\* to_dict(items, key, value): dict(zip(keys, values)), the last item of a key wins
ToDict(items, key, value) ==
    [k \in {items[i][key] : i \in 1..Len(items)} |->
        LET last == CHOOSE i \in 1..Len(items) :
                        /\ items[i][key] = k
                        /\ \A j \in 1..Len(items) : items[j][key] = k => j <= i
        IN items[last][value]]

\* result[k] = v
Put(f, k, v) == [x \in DOMAIN f \cup {k} |-> IF x = k THEN v ELSE f[x]]

\* the log after the calls `calls` of the paged operation op
Called(op, calls) == log \o [i \in 1..Len(calls) |-> op]

\* what the service may serve on one page; a Stack structure always carries its
\* StackName, so that it is never an empty dictionary
StackLists ==
    {<<>>,
     << [StackName |-> "stack",
         Outputs |-> << [OutputKey |-> "Url", OutputValue |-> "u"] >>,
         Parameters |-> << [ParameterKey |-> "Env", ParameterValue |-> "dev"] >>] >>,
     << [StackName |-> "stack", Outputs |-> <<>>, Parameters |-> <<>>] >>}
ResourceLists == {<<>>, << [LogicalResourceId |-> "Db", PhysicalResourceId |-> "db-1"] >>}
EventLists == {<<>>, <<"CREATE_COMPLETE">>}

\* an optional fact asked for by its own flag only
WantedByFlag(flag) == params[flag]
\* main: `if all_facts or module.params.get(<flag>)`
Wanted(flag) == params.all_facts \/ params[flag]

CfFail(o) == pc' = "done" /\ outcome' = o

\* main: "Describe the stack" and the stack output and parameter dictionaries
describe_stack ==
    /\ prog = "cf" /\ pc = "main"
    /\ \/ \* describe_stacks raises: "Error describing stack"
          /\ log' = Append(log, "describe_stacks")
          /\ CfFail("describe_stack_error") /\ UNCHANGED cf_result
       \/ \E ps \in Chains("Stacks", StackLists, MaxPages) :
            LET r == PaginatedResponse(ps, "Stacks", NoToken)
            IN /\ log' = Called("describe_stacks", r.calls)
               /\ IF r.result = <<>>
                  THEN CfFail("describe_stack_empty") /\ UNCHANGED cf_result
                  ELSE LET sd == r.result[1]
                           described == Put(cf_result, "stack_description", sd)
                       IN /\ cf_result' =
                               IF DOMAIN sd # {}   \* if result['stack_description']
                               THEN Put(Put(described, "stack_outputs",
                                            ToDict(sd.Outputs, "OutputKey", "OutputValue")),
                                        "stack_parameters",
                                        ToDict(sd.Parameters, "ParameterKey", "ParameterValue"))
                               ELSE described
                          /\ pc' = "stack_resources" /\ UNCHANGED outcome
    /\ UNCHANGED <<prog, timeout, timeout_given, counter, queries, seen>>
    /\ UNCHANGED <<ecsVars, towerVars, rdsVars, params, pages, func_args, page_result>>

\* main: stack_resource_list and stack_resources
list_stack_resources ==
    /\ prog = "cf" /\ pc = "stack_resources"
    /\ IF Wanted("stack_resources")
       THEN \/ /\ log' = Append(log, "describe_stack_resources")
               /\ CfFail("list_stack_resources_error") /\ UNCHANGED cf_result
            \/ \E ps \in Chains("StackResources", ResourceLists, MaxPages) :
                 LET r == PaginatedResponse(ps, "StackResources", NoToken)
                 IN /\ log' = Called("describe_stack_resources", r.calls)
                    /\ cf_result' =
                         Put(Put(cf_result, "stack_resource_list", r.result),
                             "stack_resources",
                             ToDict(r.result, "LogicalResourceId", "PhysicalResourceId"))
                    /\ pc' = "stack_template" /\ UNCHANGED outcome
       ELSE pc' = "stack_template" /\ UNCHANGED <<log, outcome, cf_result>>
    /\ UNCHANGED <<prog, timeout, timeout_given, counter, queries, seen>>
    /\ UNCHANGED <<ecsVars, towerVars, rdsVars, params, pages, func_args, page_result>>

\* main: stack_template
get_template ==
    /\ prog = "cf" /\ pc = "stack_template"
    /\ IF Wanted("stack_template")
       THEN /\ log' = Append(log, "get_template")
            /\ \/ CfFail("get_template_error") /\ UNCHANGED cf_result
               \/ \E body \in {"None", "{}"} :
                    /\ cf_result' = Put(cf_result, "stack_template", body)
                    /\ pc' = "stack_policy" /\ UNCHANGED outcome
       ELSE pc' = "stack_policy" /\ UNCHANGED <<log, outcome, cf_result>>
    /\ UNCHANGED <<prog, timeout, timeout_given, counter, queries, seen>>
    /\ UNCHANGED <<ecsVars, towerVars, rdsVars, params, pages, func_args, page_result>>

\* main: stack_policy
get_stack_policy ==
    /\ prog = "cf" /\ pc = "stack_policy"
    /\ IF Wanted("stack_policy")
       THEN /\ log' = Append(log, "get_stack_policy")
            /\ \/ \* the call raises, or the body is not JSON
                  CfFail("get_stack_policy_error") /\ UNCHANGED cf_result
               \/ \E policy \in {"dict()", "policy"} :
                    /\ cf_result' = Put(cf_result, "stack_policy", policy)
                    /\ pc' = "stack_events" /\ UNCHANGED outcome
       ELSE pc' = "stack_events" /\ UNCHANGED <<log, outcome, cf_result>>
    /\ UNCHANGED <<prog, timeout, timeout_given, counter, queries, seen>>
    /\ UNCHANGED <<ecsVars, towerVars, rdsVars, params, pages, func_args, page_result>>

\* main: stack_events, then changed = False and exit_json
describe_stack_events ==
    /\ prog = "cf" /\ pc = "stack_events"
    /\ IF Wanted("stack_events")
       THEN \/ /\ log' = Append(log, "describe_stack_events")
               /\ CfFail("describe_stack_events_error") /\ UNCHANGED cf_result
            \/ \E ps \in Chains("StackEvents", EventLists, MaxPages) :
                 LET r == PaginatedResponse(ps, "StackEvents", NoToken)
                 IN /\ log' = Called("describe_stack_events", r.calls)
                    /\ cf_result' = Put(Put(cf_result, "stack_events", r.result),
                                        "changed", FALSE)
                    /\ pc' = "done" /\ outcome' = "success"
       ELSE /\ cf_result' = Put(cf_result, "changed", FALSE)
            /\ pc' = "done" /\ outcome' = "success"
            /\ UNCHANGED log
    /\ UNCHANGED <<prog, timeout, timeout_given, counter, queries, seen>>
    /\ UNCHANGED <<ecsVars, towerVars, rdsVars, params, pages, func_args, page_result>>

CfInit ==
    /\ prog = "cf"
    /\ params \in [{"all_facts", "stack_policy", "stack_events", "stack_resources",
                    "stack_template"} -> BOOLEAN]
    /\ pages = <<>>
    /\ timeout = 0 /\ timeout_given = FALSE
    /\ operation = "" /\ check_mode = FALSE /\ count = 0 /\ ncont = 0
    /\ job_template_id = 0 /\ job_template_name = "" /\ extra_vars = {}
    /\ credential = 0 /\ inventory = 0
    /\ source_snapshot_id = "" /\ db_instance_id = "" /\ snapshot_type = ""
    /\ local_destinations = <<>> /\ remote_destinations = <<>>

NextCf ==
    \/ describe_stack
    \/ list_stack_resources
    \/ get_template
    \/ get_stack_policy
    \/ describe_stack_events

EcsInit ==
    /\ prog = "ecs"
    /\ operation \in {"run_task", "start_task", "stop_task"}
    /\ check_mode \in BOOLEAN
    /\ \/ timeout_given = TRUE /\ timeout \in Timeouts
       \/ timeout_given = FALSE /\ timeout = 0
    /\ count \in 1..MaxTasks
    /\ ncont \in 1..MaxContainers
    /\ job_template_id = 0 /\ job_template_name = "" /\ extra_vars = {}
    /\ credential = 0 /\ inventory = 0
    /\ RdsIdle

InitCommon ==
    /\ pc = "main" /\ outcome = "none" /\ log = <<>>
    /\ counter = 0 /\ queries = 0 /\ seen = {}
    /\ response = NoStatus /\ status = NoStatus
    /\ tasks = <<>> /\ results = <<>> /\ msg = <<>>
    /\ launch_requirements = <<>> /\ job_status = "" /\ job_result = <<>>
    /\ service_mgr = LocalRegion /\ snapshot = <<>>
    /\ result = [changed |-> FALSE, keys |-> {}, remote_destinations |-> <<>>]
    /\ dest = 0 /\ poll_ctx = "" /\ poll_snapshot = NoSnap /\ poll_changed = FALSE
    /\ call = <<>>
    /\ func_args = <<>> /\ page_result = <<>> /\ cf_result = <<>>

Init == InitCommon /\ (EcsInit \/ TowerInit \/ RdsInit \/ CfInit \/ PaginatedInit)
InitEcs == InitCommon /\ EcsInit
InitTower == InitCommon /\ TowerInit
InitEcsTower == InitCommon /\ (EcsInit \/ TowerInit)
InitRds == InitCommon /\ RdsInit
InitPaginated == InitCommon /\ PaginatedInit
InitCf == InitCommon /\ CfInit

NextEcs ==
    \/ run_task
    \/ start_task
    \/ stop_task
    \/ poll_tasks_iter
    \/ poll_tasks_timeout

NextTower ==
    \/ validate_parameters
    \/ authenticate
    \/ get_job_template_id
    \/ check_launch_requirements
    \/ launch_job
    \/ poll_job_iter
    \/ poll_job_return

NextRds ==
    \/ select_source
    \/ copy_or_existing
    \/ create_or_existing
    \/ poll_snapshot_status_iter
    \/ poll_snapshot_status_return
    \/ share_local
    \/ copy_remote
    \/ copy_remote_done
    \/ poll_remote
    \/ rds_exit

NextEcsTower == NextEcs \/ NextTower

Next == NextEcs \/ NextTower \/ NextRds \/ NextCf \/ paginated_response

\* a run of any of the modules
Spec == Init /\ [][Next]_vars
\* a run of ecs_task
SpecEcs == InitEcs /\ [][NextEcs]_vars
\* a run of ansible_tower
SpecTower == InitTower /\ [][NextTower]_vars
\* a run of ecs_task or of ansible_tower, the two waits bounded by a counter
SpecEcsTower == InitEcsTower /\ [][NextEcsTower]_vars
\* a run of rds_snapshot
SpecRds == InitRds /\ [][NextRds]_vars
\* a run of cloudformation_facts
SpecCf == InitCf /\ [][NextCf]_vars
\* one call of paginated_response of cloudformation_facts
SpecPaginated == InitPaginated /\ [][paginated_response]_vars
(* ============================ properties ============================== *)
\* every task of ts is STOPPED and every container of it exited with code 0
AllStoppedZero(ts) ==
    \A i \in 1..Len(ts) :
        /\ ts[i].lastStatus = "STOPPED"
        /\ \A j \in 1..Len(ts[i].containers) : ts[i].containers[j].exitCode = 0

\* some task of ts is STOPPED with a container whose exit code is not 0
SomeStoppedNonZero(ts) ==
    \E i \in 1..Len(ts) :
        /\ ts[i].lastStatus = "STOPPED"
        /\ \E j \in 1..Len(ts[i].containers) : ts[i].containers[j].exitCode # 0

SomeNotStopped(ts) == \E i \in 1..Len(ts) : ts[i].lastStatus # "STOPPED"

EcsRunOrStart == prog = "ecs" /\ operation \in {"run_task", "start_task"}

\* poll_tasks examines `status` in the next step: the loop has attempts left
EcsExamines == prog = "ecs" /\ pc = "poll_tasks" /\ counter < timeout \div 10 + 1

\* C1: when a describe_tasks response obtained during the wait, the last one of
\* the attempt budget included, shows every task STOPPED with exit code 0 in
\* every container, the wait returns that status as success.
C1_LastResponseCounts ==
    (/\ prog = "ecs" /\ pc = "done" /\ queries > 0 /\ outcome # "exception"
     /\ status.failures = <<>> /\ AllStoppedZero(status.tasks))
    => (outcome = "success" /\ results = status.tasks)

\* C2: when a response held by the wait carries a non-empty failures list, the
\* wait ends with the 'One or more tasks failed' failure, never with a timeout
\* or a success.
C2_FailuresEndTheWait ==
    (prog = "ecs" /\ pc = "done" /\ status.failures # <<>>)
    => outcome = "tasks_failed"

\* C3: with timeout = 0 a run/start whose submission response carries a
\* non-empty failures list reports failure.
C3_ZeroTimeoutReportsFailures ==
    (/\ EcsRunOrStart /\ pc = "done" /\ ~check_mode /\ timeout = 0
     /\ response.failures # <<>>)
    => outcome # "success"

\* C4: with timeout = 0, which is the default, a run/start issues no
\* describe_tasks query: the only remote call is the one run_task/start_task
\* call, and the tasks returned are the tasks of its response.
C4_NoQueryAtZeroTimeout ==
    /\ (prog = "ecs" /\ ~timeout_given) => timeout = 0
    /\ (EcsRunOrStart /\ timeout = 0) =>
          /\ queries = 0
          /\ \A i \in 1..Len(log) : log[i] # "describe_tasks"
          /\ (pc = "done" /\ ~check_mode) => log = <<operation>>
          /\ (pc = "done" /\ ~check_mode /\ outcome = "success") => results = response.tasks

C4_Witness ==
    /\ EcsRunOrStart /\ timeout = 0 /\ ~check_mode
    /\ pc = "done" /\ outcome = "success"
    /\ log = <<operation>> /\ Len(results) = 2

C6_ZeroNeverTimesOut ==
    (prog = "tower" /\ timeout = 0) => outcome # "timeout"

C8_SnapshotWaitBounded ==
    prog = "rds" => queries <= timeout \div 10 + 1

\* C9: a snapshot status of 'failed' ends the wait of poll_snapshot_status: no
\* further describe query is issued and the run ends in a failure.
C9_FailedSnapshotEndsWait ==
    [][(/\ prog = "rds" /\ pc = "poll_snapshot_status"
        /\ poll_snapshot.Status = "failed")
       => (pc' = "done" /\ outcome' # "success" /\ queries' = queries)]_vars

\* C10 as stated: when a task of a status poll_tasks examines is STOPPED with a
\* non-zero exit code, the wait ends with failure at that examination, also
\* when other tasks are not STOPPED.
C10_AnyNonZeroEndsWait ==
    [][(EcsExamines /\ SomeStoppedNonZero(status.tasks))
       => (pc' = "done" /\ outcome' \in {"tasks_failed", "non_zero"})]_vars

\* C10 amended: when a status poll_tasks examines has a STOPPED task with a
\* non-zero exit code, the wait ends with failure at that examination if every
\* task is STOPPED (or the status carries failures); while another task is not
\* STOPPED the loop issues the next describe_tasks query instead.
C10_AllStoppedNonZeroEndsWait ==
    [][(EcsExamines /\ SomeStoppedNonZero(status.tasks))
       => IF status.failures = <<>> /\ SomeNotStopped(status.tasks)
          THEN queries' = queries + 1 /\ outcome' \in {"none", "exception"}
          ELSE /\ pc' = "done" /\ outcome' \in {"tasks_failed", "non_zero"}
               /\ queries' = queries]_vars

C10_Witness ==
    /\ prog = "ecs" /\ pc = "done" /\ outcome = "non_zero"
    /\ queries >= 1 /\ Len(status.tasks) = 2
    /\ SomeStoppedNonZero(status.tasks) /\ ~SomeNotStopped(status.tasks)

\* the containers of ts whose exit code is not 0, as pairs of task and container index
Offenders(ts) ==
    {p \in (1..Len(ts)) \X (1..MaxContainers + 1) :
        p[2] <= Len(ts[p[1]].containers) /\ ts[p[1]].containers[p[2]].exitCode # 0}

\* a run/start that went through poll_tasks
EcsPolled == EcsRunOrStart /\ ~check_mode /\ timeout > 0

C12_TimeoutShowsLastResponse ==
    (prog = "ecs" /\ pc = "done" /\ outcome = "timeout") => msg = status.tasks

\* the positions of the describe_tasks queries in the log
Queries == {i \in 1..Len(log) : log[i] = "describe_tasks"}

\* C13 as stated: every describe_tasks query of poll_tasks, the first one
\* included, is preceded by a sleep of one poll interval.
C13_SleepBeforeEveryQuery ==
    prog = "ecs" => \A i \in Queries : i > 1 /\ log[i - 1] = "sleep"

\* C13 amended: the first describe_tasks query is issued right after the
\* run_task/start_task call, with no sleep in between; every later query is
\* preceded by exactly one sleep since the query before it.
C13_SleepBetweenQueries ==
    prog = "ecs" =>
        \A i \in Queries :
            IF \E j \in Queries : j < i
            THEN log[i - 1] = "sleep" /\ log[i - 2] = "describe_tasks"
            ELSE i = 2 /\ log[1] \in {"run_task", "start_task"}

C13_Witness ==
    /\ prog = "ecs" /\ Cardinality(Queries) >= 2
    /\ log[2] = "describe_tasks" /\ log[3] = "sleep" /\ log[4] = "describe_tasks"

\* C14: once the status held by the wait loop is terminal (poll_tasks: every
\* task STOPPED; poll_job: a job status outside pending, waiting, running), the
\* loop issues no further status query: its next step ends the wait.
C14_NoQueryAfterTerminal ==
    [][(\/ /\ prog = "ecs" /\ pc = "poll_tasks"
           /\ status.failures = <<>> /\ ~SomeNotStopped(status.tasks)
        \/ /\ prog = "tower" /\ pc = "poll_job"
           /\ job_status \notin {"pending", "waiting", "running"})
       => (queries' = queries /\ log' = log /\ pc' = "done")]_vars

C14_Witness ==
    /\ prog = "tower" /\ pc = "done" /\ timeout = 25
    /\ queries = 2 /\ job_status = "canceled" /\ outcome = "success"

\* the attempts of the wait loop are used up
BudgetExhausted == timeout >= 0 /\ counter >= timeout \div 10 + 1

\* C15: a timeout is a hard stop: when the attempts of poll_tasks or poll_job
\* are used up while the last status observed is not terminal, the wait ends at
\* its next step and the run ends in the 'Timed out' failure, never in the
\* successful exit, and returns no result.
C15_TimeoutIsHardStop ==
    /\ []((/\ prog = "ecs" /\ pc = "done" /\ EcsPolled /\ BudgetExhausted
           /\ status.failures = <<>> /\ SomeNotStopped(status.tasks))
          => (outcome = "timeout" /\ results = <<>>))
    /\ []((/\ prog = "tower" /\ pc = "done" /\ BudgetExhausted /\ job_result # <<>>
           /\ job_result[1].status \in {"pending", "waiting", "running"})
          => outcome = "timeout")
    /\ [][(/\ pc \in {"poll_tasks", "poll_job"} /\ BudgetExhausted
           /\ \/ prog = "ecs" /\ status.failures = <<>> /\ SomeNotStopped(status.tasks)
              \/ prog = "tower" /\ job_status \in {"pending", "waiting", "running"})
          => (pc' = "done" /\ outcome' = "timeout" /\ queries' = queries)]_vars

C15_Witness ==
    /\ prog = "tower" /\ pc = "done" /\ timeout = 25 /\ queries = 3
    /\ job_result[1].status = "running" /\ ~job_result[1].failed
    /\ outcome = "timeout"

\* poll_job returned a job result to main
JobReturned == prog = "tower" /\ pc = "done" /\ job_result # <<>> /\ outcome # "launch_error"

\* C16: after polling, ansible_tower exits successfully only if the last job
\* status observed is outside pending, waiting, running and the failed flag of
\* the job result is not set; it fails with 'Timed out' exactly when that status
\* is pending, waiting or running, and with 'Job failed' when the status is
\* terminal and failed is set.
C16_OutcomeClassification ==
    /\ (prog = "tower" /\ outcome \in {"success", "timeout", "job_failed"}) => JobReturned
    /\ JobReturned =>
         LET active == job_result[1].status \in {"pending", "waiting", "running"}
         IN /\ job_status = job_result[1].status
            /\ outcome = "timeout" <=> active
            /\ outcome = "job_failed" <=> (~active /\ job_result[1].failed)
            /\ outcome = "success" <=> (~active /\ ~job_result[1].failed)

C16_Witness ==
    /\ JobReturned /\ outcome = "job_failed" /\ queries = 2
    /\ job_result[1].status = "failed" /\ job_result[1].failed

\* a describe query of the running wait reported that the snapshot is gone
SnapshotGone == prog = "rds" /\ poll_ctx # "" /\ poll_snapshot = NoSnap

\* C17: when a describe query of poll_snapshot_status reports that the snapshot
\* no longer exists, the wait aborts at once with the error 'The snapshot could
\* no longer be found': that query is the last call of the run, and the run
\* returns neither a snapshot nor another outcome.
C17_MissingSnapshotAborts ==
    /\ [](SnapshotGone =>
            /\ pc = "done" /\ outcome = "snapshot_not_found"
            /\ queries >= 1
            /\ call[Len(call)].op = "describe_db_snapshots"
            /\ "snapshot" \notin result.keys)
    /\ [](prog = "rds" /\ outcome = "snapshot_not_found" => SnapshotGone)
    /\ [][SnapshotGone => UNCHANGED vars]_vars

C17_Witness ==
    /\ SnapshotGone /\ poll_ctx = "remote" /\ queries = 2
    /\ outcome = "snapshot_not_found"

\* a status query of the wait loop raised: it was counted and the loop counter was not
QueryErrored == prog \in {"ecs", "tower"} /\ queries = counter + 1

\* C18: when a status query of poll_tasks or poll_job itself errors, the wait
\* loop is aborted at once, with no retry and no further query: the errored
\* query is the last call of the run, and the run ends in an error that is not
\* the success exit, not 'Timed out', and not 'tasks failed', 'non-zero exit
\* code' or 'Job failed'.
C18_QueryErrorAborts ==
    /\ [](QueryErrored =>
            /\ pc = "done"
            /\ outcome \notin {"none", "success", "timeout", "tasks_failed", "non_zero",
                               "job_failed"}
            /\ log[Len(log)] \in {"describe_tasks", "get_job"}
            /\ results = <<>>)
    /\ [][QueryErrored => UNCHANGED vars]_vars
    /\ []((prog \in {"ecs", "tower"} /\ queries > 0 /\ "error" \in seen) => QueryErrored)

C18_Witness ==
    /\ QueryErrored /\ prog = "ecs" /\ queries = 2 /\ pc = "done"
    /\ outcome = "exception" /\ log[Len(log)] = "describe_tasks"

\* the regions of the remote destinations that are not the local region, in order
RemoteRegions ==
    LET all == [i \in 1..Len(remote_destinations) |-> remote_destinations[i].region]
    IN SelectSeq(all, LAMBDA r : r # "ap-southeast-2")

\* a wait for a remote copy has started
RemoteWaitStarted == prog = "rds" /\ poll_ctx = "remote"

\* C19: the copies for all remote destinations are submitted before the first
\* wait for a remote copy starts, and the remote copies are then waited for one
\* after another in the order of their submission: the k-th wait is the wait for
\* the copy of the k-th remote destination.
C19_SubmitAllThenPoll ==
    /\ [](RemoteWaitStarted =>
            /\ Len(result.remote_destinations) = Len(RemoteRegions)
            /\ \A k \in 1..Len(RemoteRegions) :
                  /\ result.remote_destinations[k].region = RemoteRegions[k]
                  /\ result.remote_destinations[k].snapshot.Region = RemoteRegions[k])
    /\ [][(\E i \in 1..Len(call') : call'[i].op = "copy_db_snapshot")
          => (~RemoteWaitStarted /\ ~RemoteWaitStarted')]_vars
    /\ [][(RemoteWaitStarted' /\ pc = "poll_remote" /\ pc' = "poll_snapshot_status")
          => /\ dest' = dest /\ queries' = 0
             /\ poll_snapshot' = result.remote_destinations[dest].snapshot
             /\ dest = 1 \/ (RemoteWaitStarted /\ ~PollSnapshotContinues(poll_snapshot))]_vars
    /\ [][(RemoteWaitStarted /\ dest' # dest)
          => (dest' = dest + 1 /\ pc = "poll_snapshot_status" /\ pc' = "poll_remote")]_vars

C19_Witness ==
    /\ RemoteWaitStarted /\ pc = "poll_snapshot_status" /\ dest = 2
    /\ Len(RemoteRegions) = 2 /\ RemoteRegions[1] # RemoteRegions[2]
    /\ poll_snapshot.DBSnapshotIdentifier = "target" /\ queries = 1

\* C20: for every remote destination that lists accounts, once the wait for its
\* copy has returned the module goes on to share the copy with those accounts:
\* the restore attributes of the copy are read (and modified unless every
\* account already has access), and the step does not fail.
C20_RemoteCopyIsShared ==
    [][(/\ RemoteWaitStarted /\ pc = "poll_snapshot_status"
        /\ poll_snapshot.Status = "available"
        /\ result.remote_destinations[dest].accounts # <<>>)
       => /\ \E i \in 1..Len(call') : call'[i].op = "describe_db_snapshot_attributes"
          /\ outcome' # "exception"]_vars

\* the positions in the log of the submitting calls and of the status queries
Submissions == {i \in 1..Len(log) : log[i] \in {"run_task", "start_task", "launch_job"}}
StatusQueries == {i \in 1..Len(log) : log[i] \in {"describe_tasks", "get_job"}}

\* C21: in one run of ecs_task (run/start) or ansible_tower the submitting call
\* (run_task/start_task, or the launch POST) is issued at most once, exactly once
\* when the run reaches its wait, and every status query comes after it.
C21_SubmitOnceBeforeWaiting ==
    (prog \in {"ecs", "tower"} /\ operation # "stop_task") =>
        /\ Cardinality(Submissions) <= 1
        /\ Cardinality(StatusQueries) = queries
        /\ (pc \in {"poll_tasks", "poll_job"} \/ queries > 0) => Cardinality(Submissions) = 1
        /\ \A q \in StatusQueries : \E s \in Submissions : s < q
        /\ (prog = "ecs" /\ pc = "done" /\ ~check_mode) => Submissions = {1}

C21_Witness ==
    /\ prog = "tower" /\ pc = "done" /\ outcome = "success"
    /\ Cardinality(Submissions) = 1 /\ Cardinality(StatusQueries) = 2

\* C22: every successful exit of rds_snapshot returns a result that contains
\* the keys source_snapshot, snapshot and snapshot_arn, on every input path.
C22_ResultShape ==
    (prog = "rds" /\ pc = "done" /\ outcome = "success")
    => {"source_snapshot", "snapshot", "snapshot_arn"} \subseteq result.keys

\* the lists of the pages of ps, joined in page order
RECURSIVE Concat(_, _)
Concat(ps, result_key) ==
    IF ps = <<>> THEN <<>> ELSE Head(ps)[result_key] \o Concat(Tail(ps), result_key)

PaginatedDone == prog = "paginated_response" /\ pc = "done"

\* C23: for a finite chain of pages paginated_response calls the paged function
\* once per page, the first call without NextToken and each later call with the
\* NextToken of the page before it, stops at the first page without NextToken,
\* and returns the lists of all pages joined in page order.
C23_PaginatedResponse ==
    PaginatedDone =>
        /\ Len(func_args) = Len(pages)
        /\ func_args[1] = <<>>
        /\ \A i \in 2..Len(func_args) : func_args[i] = <<pages[i - 1]["NextToken"]>>
        /\ pages[Len(func_args)]["NextToken"] = 0
        /\ page_result = Concat(pages, "Items")

C23_Witness ==
    /\ PaginatedDone /\ Len(pages) = 3
    /\ func_args = << <<>>, <<2>>, <<3>> >>
    /\ page_result = <<"a", "b", "a">>

\* the optional facts: the flag, the result keys it adds, the remote call it costs
OptionalFacts ==
    { [flag |-> "stack_events", keys |-> {"stack_events"}, op |-> "describe_stack_events"],
      [flag |-> "stack_policy", keys |-> {"stack_policy"}, op |-> "get_stack_policy"],
      [flag |-> "stack_template", keys |-> {"stack_template"}, op |-> "get_template"],
      [flag |-> "stack_resources", keys |-> {"stack_resource_list", "stack_resources"},
       op |-> "describe_stack_resources"] }

CfSuccess == prog = "cf" /\ pc = "done" /\ outcome = "success"

\* C24: on success the result of cloudformation_facts contains
\* stack_description, stack_outputs and stack_parameters with changed = False,
\* and the keys of an optional fact exactly when all_facts or the flag of that
\* fact is true; the remote call of an optional fact is issued only in that case.
C24_FactsResultShape ==
    /\ CfSuccess =>
         /\ {"stack_description", "stack_outputs", "stack_parameters", "changed"}
               \subseteq DOMAIN cf_result
         /\ cf_result["changed"] = FALSE
         /\ \A f \in OptionalFacts :
               IF params["all_facts"] \/ params[f.flag]
               THEN f.keys \subseteq DOMAIN cf_result
               ELSE f.keys \cap DOMAIN cf_result = {}
    /\ prog = "cf" =>
         \A f \in OptionalFacts :
            (\E i \in 1..Len(log) : log[i] = f.op) => (params["all_facts"] \/ params[f.flag])

C24_Witness ==
    /\ CfSuccess /\ ~params["all_facts"] /\ params["stack_resources"]
    /\ ~params["stack_events"] /\ ~params["stack_policy"] /\ ~params["stack_template"]
    /\ DOMAIN cf_result = {"stack_description", "stack_outputs", "stack_parameters",
                           "stack_resource_list", "stack_resources", "changed"}
    /\ Len(cf_result["stack_resource_list"]) = 2
    /\ log = <<"describe_stacks", "describe_stack_resources", "describe_stack_resources">>

\* C25: the changed flag of rds_snapshot is monotonic within a run: once
\* result['changed'] is True no later step sets it back to False.
C25_ChangedIsMonotonic ==
    [][(prog = "rds" /\ result.changed) => result'.changed]_vars

\* C26: each remote copy is polled through the client of the region it was
\* submitted to: a describe query of the wait for the copy of a destination is
\* sent to the client of that destination's region.
C26_PolledInOwnRegion ==
    [][(/\ RemoteWaitStarted /\ pc = "poll_snapshot_status"
        /\ queries' = queries + 1)
       => \A i \in 1..Len(call') :
             call'[i].region = result.remote_destinations[dest].region]_vars

\* C27: no local share (modify_db_snapshot_attribute) and no remote
\* copy_db_snapshot is issued for the local snapshot before that snapshot has
\* been observed with status 'available', on every input path.
C27_AvailableBeforeShareOrCopy ==
    [][(/\ prog = "rds"
        /\ \/ /\ pc = "share_local"
              /\ \E i \in 1..Len(call') : call'[i].op = "modify_db_snapshot_attribute"
           \/ /\ pc = "copy_remote"
              /\ \E i \in 1..Len(call') : call'[i].op = "copy_db_snapshot")
       => snapshot[1].Status = "available"]_vars

\* position of the first entry x of the log, 0 when there is none
Pos(x) ==
    IF \E i \in 1..Len(log) : log[i] = x
    THEN CHOOSE i \in 1..Len(log) : log[i] = x /\ \A j \in 1..(i - 1) : log[j] # x
    ELSE 0

\* the failures of main that come before the launch
FailedBeforeLaunch ==
    outcome \in {"no_template_param", "auth_failed", "connect_failed",
                 "template_query_error", "invalid_template",
                 "launch_data_error", "requirements_error"}

\* C28: ansible_tower issues the launch POST only after authentication
\* succeeded, a non-empty job template id was resolved and every
\* launch-requirement check passed; the name lookup is made only when no id was
\* supplied; a run that fails at one of these steps, or for want of both
\* job_template_id and job_template_name, issues neither the launch POST nor a
\* job-status query.
C28_LaunchOrdering ==
    /\ [](prog = "tower" =>
            /\ Pos("launch_job") > 0 =>
                 /\ log[1] = "authenticate"
                 /\ job_template_id # 0
                 /\ launch_requirements # <<>>
                 /\ launch_requirements[1].variables_needed_to_start \subseteq extra_vars
                 /\ launch_requirements[1].credential_needed_to_start => credential # 0
                 /\ Pos("get_launch_requirements") > 1
                 /\ Pos("get_launch_requirements") < Pos("launch_job")
                 /\ Pos("get_job_template_id") < Pos("get_launch_requirements")
            /\ Pos("get_job") > 0 => Pos("launch_job") \in 1..(Pos("get_job") - 1)
            /\ FailedBeforeLaunch =>
                 Pos("launch_job") = 0 /\ Pos("get_job") = 0 /\ queries = 0)
    /\ [][(/\ prog = "tower" /\ Len(log') > Len(log)
           /\ log'[Len(log')] = "get_job_template_id")
          => job_template_id = 0 /\ job_template_name # ""]_vars

C28_Witness ==
    /\ prog = "tower" /\ Pos("launch_job") > 0 /\ Pos("get_job_template_id") > 0
    /\ launch_requirements # <<>>
    /\ launch_requirements[1].credential_needed_to_start
    /\ launch_requirements[1].variables_needed_to_start # {}
====
